---- MODULE Spec2Model ----
(***************************************************************************)
(* A model of src/src/lib/signalGenerator.ts: the market simulator, the    *)
(* indicator functions, analyzePattern, analyzeMultiTimeframe, the         *)
(* five-minute interval alignment and the generateSignal search loop.      *)
(*                                                                         *)
(* Numbers.  The source computes with IEEE doubles.  Here a price is an   *)
(* integer number of pips (Unit(pair) pips make 1.0), an oscillator value  *)
(* (RSI, stochastic) is held in thousandths of a point, signal weights in  *)
(* tenths, and a Math.random() result is a number of thousandths 0..999.   *)
(* Divisions are integer divisions; every comparison is made on the same   *)
(* scaled quantities the source compares.                                  *)
(*                                                                         *)
(* Time.  A Date is its number of milliseconds since local midnight of     *)
(* day 0; the local zone has no offset and no daylight saving.             *)
(***************************************************************************)
EXTENDS Integers, Sequences, FiniteSets, TLC

VARIABLES
    now,          \* the clock: what Date.now() and new Date() return
    simulator,    \* the MarketSimulator instance: [prices, trends]
    lastCall,     \* the operation that made the last step
    interval,     \* the last getNextFiveMinuteInterval / getTimeUntilNextInterval call
    ticks,        \* number of clock advances made
    updates,      \* number of analyzePattern calls made outside a search
    lastScore,    \* the last analyzePattern call: its argument and result
    lastMtf,      \* the last analyzeMultiTimeframe call: its argument and result
    pc,           \* where generateSignal stands: "idle", "loop", "select", "done"
    search,       \* the locals of generateSignal
    draws,        \* history: the draws the current search has performed, in order
    result        \* what the last generateSignal call returned

(***************************************************************************)
(* Bounds of the model.                                                    *)
(***************************************************************************)
MaxTicks == 1          \* clock advances explored after the start instant
MaxUpdates == 1        \* analyzePattern calls explored outside a search
BranchDraws == 2       \* draws of a search whose random outcome is enumerated
MaxFeed == 3           \* length of the draw sequences whose permutations are compared

(***************************************************************************)
(* Small arithmetic helpers.                                               *)
(***************************************************************************)
Abs(x) == IF x < 0 THEN -x ELSE x
Max2(a, b) == IF a > b THEN a ELSE b
Min2(a, b) == IF a < b THEN a ELSE b
Last(s) == s[Len(s)]
\* Array.prototype.slice(-n): the last n elements (all of them if fewer)
SliceLast(s, n) == IF Len(s) <= n THEN s ELSE SubSeq(s, Len(s) - n + 1, Len(s))

(***************************************************************************)
(* Date: getters and setters with the overflow normalisation of JavaScript *)
(* (setMinutes(60) is minute 0 of the next hour).                          *)
(***************************************************************************)
MsPerSecond == 10 * 100
MsPerMinute == 60 * MsPerSecond
MsPerHour == 60 * MsPerMinute
getHours(t) == (t \div MsPerHour) % 24
getMinutes(t) == (t \div MsPerMinute) % 60
getSeconds(t) == (t \div MsPerSecond) % 60
getMilliseconds(t) == t % MsPerSecond
setHours(t, h) == t + (h - getHours(t)) * MsPerHour
setMinutes(t, m) == t + (m - getMinutes(t)) * MsPerMinute
setSeconds(t, s) == t + (s - getSeconds(t)) * MsPerSecond
setMilliseconds(t, ms) == t + (ms - getMilliseconds(t))
TimeOf(h, m, s, ms) == h * MsPerHour + m * MsPerMinute + s * MsPerSecond + ms

(***************************************************************************)
(* getNextFiveMinuteInterval, statement by statement.                      *)
(***************************************************************************)
\* Math.ceil(minutes / 5) * 5
AlignedMinute(minutes) == ((minutes + 4) \div 5) * 5

\* lines 253-261: round the minute up, rolling the hour when it rounds to 60
RoundUpMinute(t) ==
    LET alignedMinute == AlignedMinute(getMinutes(t))
    IN  IF alignedMinute = 60
        THEN setMinutes(setHours(t, getHours(t) + 1), 0)
        ELSE setMinutes(t, alignedMinute)

\* lines 266-272: the branch for a clock reading exactly on a boundary
ExactBoundaryAdvance(t, next) ==
    IF getSeconds(t) = 0 /\ getMilliseconds(t) = 0 /\ getMinutes(t) % 5 = 0
    THEN LET n1 == setMinutes(next, getMinutes(t) + 5)
         IN  IF getMinutes(n1) = 65
             THEN setMinutes(setHours(n1, getHours(n1) + 1), 5)
             ELSE n1
    ELSE next

\* endInterval = new Date(nextInterval); endInterval.setMinutes(getMinutes() + 4)
EndOfIntervalShort(start) == setMinutes(start, getMinutes(start) + 4)

\* lines 274-275
EndOfInterval(start) == setMinutes(start, getMinutes(start) + 5)

getNextFiveMinuteInterval(t) ==
    LET rounded == setMilliseconds(setSeconds(RoundUpMinute(t), 0), 0)
        nextInterval == ExactBoundaryAdvance(t, rounded)
    IN  [start |-> nextInterval, end |-> EndOfInterval(nextInterval)]

(***************************************************************************)
(* CURRENCY_PAIRS and the list the simulator iterates over.  EUR/USD,      *)
(* GBP/USD and AUD/USD stand in two session lists, so the concatenation    *)
(* holds them twice.                                                       *)
(***************************************************************************)
Asian == <<"USD/JPY", "AUD/JPY", "NZD/JPY", "AUD/USD", "NZD/USD">>
London == <<"EUR/USD", "GBP/USD", "EUR/GBP", "EUR/JPY", "GBP/JPY">>
NewYork == <<"USD/CAD", "EUR/USD", "GBP/USD", "USD/CHF", "AUD/USD">>
AllPairsList == Asian \o London \o NewYork
PairNames == {AllPairsList[i] : i \in 1..Len(AllPairsList)}
\* an instrument no session lists: analyzePattern is exported and takes any string
UnknownPair == "XXX/XXX"
Trends == {"up", "down", "neutral"}

\* pips per 1.0 of price: 0.001 for the JPY-quoted pairs, 0.00001 for the others
Unit(pair) ==
    IF pair \in {"USD/JPY", "AUD/JPY", "NZD/JPY", "EUR/JPY", "GBP/JPY"}
    THEN 10 * 100 ELSE 1000 * 100

\* getBasePrice, in pips
getBasePrice(pair) ==
    CASE pair = "USD/JPY" -> 145500
      [] pair = "AUD/JPY" -> 99200
      [] pair = "NZD/JPY" -> 94800
      [] pair = "AUD/USD" -> 68000
      [] pair = "NZD/USD" -> 65000
      [] pair = "EUR/USD" -> 109000
      [] pair = "GBP/USD" -> 127000
      [] pair = "EUR/GBP" -> 86000
      [] pair = "EUR/JPY" -> 158500
      [] pair = "GBP/JPY" -> 184200
      [] pair = "USD/CAD" -> 135000
      [] pair = "USD/CHF" -> 88000
      [] OTHER -> Unit(pair)

(***************************************************************************)
(* Math.random().  A result is a number of thousandths, 0..999, read from  *)
(* one of a few tapes; Rand(tape, k) is the k-th draw of a tape.  The      *)
(* last tape reads 0 for the first 93 draws and 999 afterwards.            *)
(***************************************************************************)
RandomTapes ==
    << <<999>>, <<0>>, <<0, 999>>, <<999, 0, 0, 999, 500>>, <<500>>, <<>> >>
NumTapes == Len(RandomTapes)
Rand(tape, k) ==
    LET t == RandomTapes[tape]
    IN  IF Len(t) = 0 THEN (IF k <= 93 THEN 0 ELSE 999)
        ELSE t[((k - 1) % Len(t)) + 1]
\* the tape read by the j-th consumer under a given seed
TapeOf(seed, j) == ((seed + j) % NumTapes) + 1

\* Math.sin(i / 10) in thousandths, i = 0..50
SinMilli ==
    << 0, 100, 199, 296, 389, 479, 565, 644, 717, 783, 841, 891, 932, 964,
       985, 997, 1000, 992, 974, 946, 909, 863, 808, 746, 675, 598, 516, 427,
       335, 239, 141, 42, -58, -158, -256, -351, -443, -530, -612, -688, -757,
       -818, -872, -916, -952, -978, -994, -1000, -996, -982, -959 >>

(***************************************************************************)
(* MarketSimulator                                                         *)
(***************************************************************************)
PriceData(ts, o, h, l, c) ==
    [timestamp |-> ts, open |-> o, high |-> h, low |-> l, close |-> c]

\* the body of the loop  for (let i = 50; i >= 0; i--)  and its continuation
RECURSIVE InitialPricesFrom(_, _, _, _, _)
InitialPricesFrom(i, basePrice, tape, t, acc) ==
    IF i < 0 THEN acc
    ELSE LET k == 3 * (50 - i)
             timestamp == t - (i * 5 * 60 * 1000)
             volatility == (5 * basePrice) \div 10000
             trend == (SinMilli[i + 1] * volatility) \div 1000
             noise == ((Rand(tape, k + 1) - 500) * volatility * 2) \div 1000
             open == basePrice
             close == basePrice + trend + noise
             high == Max2(open, close) + (Rand(tape, k + 2) * volatility) \div 1000
             low == Min2(open, close) - (Rand(tape, k + 3) * volatility) \div 1000
         IN  InitialPricesFrom(i - 1, close, tape, t,
                               Append(acc, PriceData(timestamp, open, high, low, close)))

generateInitialPrices(pair, tape, t) ==
    InitialPricesFrom(50, getBasePrice(pair), tape, t, <<>>)

\* history.push(bar) alone, without the shift that caps the length
PushBarUncapped(history, bar) == Append(history, bar)

\* history.push(bar); if (history.length > 60) history.shift()
PushBar(history, bar) ==
    LET h == Append(history, bar)
    IN  IF Len(h) > 60 THEN Tail(h) ELSE h

\* one iteration of the forEach of updatePrices, on the state sim = [prices, trends]
UpdateOnePair(sim, pair, tape, t) ==
    LET history == sim.prices[pair]
        lastPrice == Last(history)
        trend == sim.trends[pair]
        volatility == (8 * lastPrice.close) \div 10000
        noise == ((Rand(tape, 1) - 500) * volatility) \div 1000
        momentum == IF trend = "up" THEN (5 * lastPrice.close) \div 10000
                    ELSE IF trend = "down" THEN -((5 * lastPrice.close) \div 10000)
                    ELSE 0
        open == lastPrice.close
        close == lastPrice.close + momentum + noise
        high == Max2(open, close) + (Rand(tape, 2) * volatility) \div 2000
        low == Min2(open, close) - (Rand(tape, 3) * volatility) \div 2000
        trendOptions == <<"up", "down", "neutral">>
        newTrend == IF Rand(tape, 4) > 850
                    THEN trendOptions[((Rand(tape, 5) * 3) \div 1000) + 1]
                    ELSE trend
    IN  [prices |-> [sim.prices EXCEPT
                        ![pair] = PushBar(history, PriceData(t, open, high, low, close))],
         trends |-> [sim.trends EXCEPT ![pair] = newTrend]]

\* the forEach of updatePrices from its j-th entry on
RECURSIVE UpdateFrom(_, _, _, _)
UpdateFrom(sim, j, seed, t) ==
    IF j > Len(AllPairsList) THEN sim
    ELSE UpdateFrom(UpdateOnePair(sim, AllPairsList[j], TapeOf(seed, j), t), j + 1, seed, t)

updatePrices(sim, seed, t) == UpdateFrom(sim, 1, seed, t)

\* this.prices.get(pair) || []  then  history.slice(-periods)
getPriceHistory(pr, pair, periods) ==
    SliceLast(IF pair \in DOMAIN pr THEN pr[pair] ELSE <<>>, periods)

\* new MarketSimulator() at clock reading t
\* the constructor; a pair listed twice is generated twice and the second set() wins
NewSimulator(seed, t) ==
    [prices |-> [p \in PairNames |->
                    generateInitialPrices(p,
                        TapeOf(seed, CHOOSE j \in 1..Len(AllPairsList) :
                                        /\ AllPairsList[j] = p
                                        /\ \A m \in (j + 1)..Len(AllPairsList) :
                                              AllPairsList[m] # p), t)],
     trends |-> [p \in PairNames |-> "neutral"]]

(***************************************************************************)
(* Indicator functions.  closes etc. are sequences of pips; results are    *)
(* in the unit each comment names.                                         *)
(***************************************************************************)
Closes(bars) == [i \in 1..Len(bars) |-> bars[i].close]

\* The folds below split their range in halves, so that the evaluation nests
\* only to the logarithm of the length.
RECURSIVE SumRange(_, _, _)
SumRange(s, lo, hi) ==
    IF lo > hi THEN 0
    ELSE IF lo = hi THEN s[lo]
    ELSE SumRange(s, lo, (lo + hi) \div 2) + SumRange(s, ((lo + hi) \div 2) + 1, hi)
\* values.reduce((a, b) => a + b), 0 on the empty sequence
SumSeq(s) == SumRange(s, 1, Len(s))

RECURSIVE MaxRange(_, _, _)
MaxRange(s, lo, hi) ==
    IF lo = hi THEN s[lo]
    ELSE Max2(MaxRange(s, lo, (lo + hi) \div 2), MaxRange(s, ((lo + hi) \div 2) + 1, hi))
\* Math.max(...s), s not empty
MaxSeq(s) == MaxRange(s, 1, Len(s))

RECURSIVE MinRange(_, _, _)
MinRange(s, lo, hi) ==
    IF lo = hi THEN s[lo]
    ELSE Min2(MinRange(s, lo, (lo + hi) \div 2), MinRange(s, ((lo + hi) \div 2) + 1, hi))
\* Math.min(...s), s not empty
MinSeq(s) == MinRange(s, 1, Len(s))

\* changes.filter(c => c > 0), on the entries lo..hi
RECURSIVE GainsRange(_, _, _)
GainsRange(s, lo, hi) ==
    IF lo > hi THEN <<>>
    ELSE IF lo = hi THEN (IF s[lo] > 0 THEN <<s[lo]>> ELSE <<>>)
    ELSE GainsRange(s, lo, (lo + hi) \div 2) \o GainsRange(s, ((lo + hi) \div 2) + 1, hi)
FilterGains(s) == GainsRange(s, 1, Len(s))

\* changes.filter(c => c < 0), on the entries lo..hi
RECURSIVE LossesRange(_, _, _)
LossesRange(s, lo, hi) ==
    IF lo > hi THEN <<>>
    ELSE IF lo = hi THEN (IF s[lo] < 0 THEN <<s[lo]>> ELSE <<>>)
    ELSE LossesRange(s, lo, (lo + hi) \div 2) \o LossesRange(s, ((lo + hi) \div 2) + 1, hi)
FilterLosses(s) == LossesRange(s, 1, Len(s))

\* x / y rounded to the nearest integer (y > 0)
DivRound(x, y) == (2 * x + y) \div (2 * y)

\* Math.sqrt on integers: the largest r with r * r <= n, by bisection of lo..hi
RECURSIVE SqrtIn(_, _, _)
SqrtIn(n, lo, hi) ==
    IF lo >= hi THEN lo
    ELSE LET mid == (lo + hi + 1) \div 2
         IN  IF mid * mid <= n THEN SqrtIn(n, mid, hi) ELSE SqrtIn(n, lo, mid - 1)
Sqrt(n) == SqrtIn(n, 0, 46340)

\* calculateRSI, in thousandths of a point.  avgGain and avgLoss are held as
\* period * average (the sums); the common factor 1/period cancels in rs.
calculateRSI(bars, period) ==
    LET closes == Closes(bars)
        changes == [i \in 1..(Len(closes) - 1) |-> closes[i + 1] - closes[i]]
        gains == SliceLast(FilterGains(changes), period)
        lossesSigned == SliceLast(FilterLosses(changes), period)
        losses == [i \in 1..Len(lossesSigned) |-> Abs(lossesSigned[i])]
        avgGain == IF Len(gains) > 0 THEN SumSeq(gains) ELSE 0
        avgLoss == IF Len(losses) > 0 THEN SumSeq(losses) ELSE 0
    IN  IF avgLoss = 0 THEN (IF avgGain > 0 THEN 100000 ELSE 0)
        \* 100 - 100 / (1 + avgGain / avgLoss)
        ELSE 100000 - (100000 * avgLoss) \div (avgLoss + avgGain)

\* one iteration of the loop of calculateEMA: multiplier = 2 / (period + 1),
\* ema = value * multiplier + ema * (1 - multiplier)
EMAStep(value, ema, period) == DivRound(2 * value + (period - 1) * ema, period + 1)

\* The loop of calculateEMA over the iterations lo..hi (1-based), entered with the
\* series acc of the values ema has taken so far; acc[i] is what calculateEMA
\* returns on values.slice(0, i).  The first half is evaluated before the second
\* is entered.
RECURSIVE EMARange(_, _, _, _, _)
EMARange(values, period, lo, hi, acc) ==
    IF lo > hi THEN acc
    ELSE IF lo = hi THEN Append(acc, EMAStep(values[lo], Last(acc), period))
    ELSE LET half == EMARange(values, period, lo, (lo + hi) \div 2, acc)
         IN  IF Len(half) > 0
             THEN EMARange(values, period, ((lo + hi) \div 2) + 1, hi, half)
             ELSE half

\* calculateEMA on every prefix of values (values not empty)
EMASeries(values, period) == EMARange(values, period, 2, Len(values), <<values[1]>>)

\* calculateEMA: values and result in the same unit
calculateEMA(values, period) ==
    IF Len(values) = 0 THEN 0 ELSE Last(EMASeries(values, period))

\* closes in hundredths of a pip, the unit the moving averages are held in
Centi(closes) == [i \in 1..Len(closes) |-> 100 * closes[i]]

\* calculateMACD, in hundredths of a pip
calculateMACD(bars) ==
    LET closes == Centi(Closes(bars))
        macd == calculateEMA(closes, 12) - calculateEMA(closes, 26)
        \* macdValues[i] = calculateEMA(closes.slice(0, i), 12) - calculateEMA(.., 26)
        e12 == EMASeries(closes, 12)
        e26 == EMASeries(closes, 26)
        macdValues == [i \in 1..Len(closes) |-> e12[i] - e26[i]]
        signal == calculateEMA(macdValues, 9)
    IN  [macd |-> macd, signal |-> signal, histogram |-> macd - signal]

\* calculateMovingAverages, in hundredths of a pip
calculateMovingAverages(bars) ==
    LET closes == Closes(bars)
    IN  [sma20 |-> (100 * SumSeq(SliceLast(closes, 20))) \div 20,
         sma50 |-> (100 * SumSeq(SliceLast(closes, 50))) \div Min2(50, Len(closes)),
         ema9 |-> calculateEMA(Centi(closes), 9)]

\* d = (k + (prices.length > 1 ? k : 0) + (prices.length > 2 ? k : 0)) / 3
StochasticD(k, n) ==
    (k + (IF n > 1 THEN k ELSE 0) + (IF n > 2 THEN k ELSE 0)) \div 3

\* calculateStochastic, k and d in thousandths of a point
calculateStochastic(bars, period) ==
    LET recent == SliceLast(bars, period)
        high == MaxSeq([i \in 1..Len(recent) |-> recent[i].high])
        low == MinSeq([i \in 1..Len(recent) |-> recent[i].low])
        current == Last(recent).close
        k == IF high = low THEN 50000 ELSE ((current - low) * 100000) \div (high - low)
    IN  [k |-> k, d |-> StochasticD(k, Len(bars))]

\* calculateBollingerBands, in hundredths of a pip.  The deviations are
\* squared in tenths of a pip and each square divided by period before the
\* sum, which keeps the variance inside the integer range.
calculateBollingerBands(bars, period) ==
    LET lastCloses == SliceLast(Closes(bars), period)
        middle == (100 * SumSeq(lastCloses)) \div period
        dev(val) == (100 * val - middle) \div 10
        variance == SumSeq([i \in 1..Len(lastCloses) |->
                              (dev(lastCloses[i]) * dev(lastCloses[i])) \div period])
        stdDev == 10 * Sqrt(variance)
    IN  [upper |-> middle + (stdDev * 2), middle |-> middle, lower |-> middle - (stdDev * 2)]

\* calculateATR, in hundredths of a pip
calculateATR(bars, period) ==
    LET first == Max2(1, Len(bars) - period) + 1    \* 1-based index of the first bar used
        tr(i) == MaxSeq(<< bars[i].high - bars[i].low,
                           Abs(bars[i].high - bars[i - 1].close),
                           Abs(bars[i].low - bars[i - 1].close) >>)
        count == Len(bars) - first + 1
        sum == SumSeq([j \in 1..count |-> tr(first + j - 1)])
    IN  IF count > 0 THEN (100 * sum) \div count ELSE 0

\* detectSupportResistance, in pips
detectSupportResistance(bars) ==
    [support |-> MinSeq([i \in 1..Len(bars) |-> bars[i].low]),
     resistance |-> MaxSeq([i \in 1..Len(bars) |-> bars[i].high])]

(***************************************************************************)
(* analyzePattern: the scoring factors.  Each returns what it adds to      *)
(* bullishSignals and to bearishSignals, in tenths.                        *)
(***************************************************************************)
Adds(bull, bear) == [bull |-> bull, bear |-> bear]

\* lines 309-314, rsi in thousandths of a point
RsiFactor(rsi) ==
    IF rsi < 25000 THEN Adds(30, 0)
    ELSE IF rsi < 35000 THEN Adds(25, 0)
    ELSE IF rsi < 50000 THEN Adds(12, 0)
    ELSE IF rsi > 75000 THEN Adds(0, 30)
    ELSE IF rsi > 65000 THEN Adds(0, 25)
    ELSE IF rsi > 50000 THEN Adds(0, 12)
    ELSE Adds(0, 0)

\* lines 318-323, m in hundredths of a pip; 0.015 and 0.005 are price amounts
MacdFactor(m, unit) ==
    LET histogramStrength == Abs(m.histogram)
        bonus == IF 10 * histogramStrength > 15 * unit THEN 15
                 ELSE IF 10 * histogramStrength > 5 * unit THEN 8 ELSE 0
    IN  IF m.histogram > 0 /\ m.macd > m.signal THEN Adds(25 + bonus, 0)
        ELSE IF m.histogram < 0 /\ m.macd < m.signal THEN Adds(0, 25 + bonus)
        ELSE Adds(0, 0)

\* lines 327-330, all in hundredths of a pip
MaFactor(currentPrice, ma) ==
    IF currentPrice > ma.sma20 /\ ma.sma20 > ma.sma50 THEN Adds(25, 0)
    ELSE IF currentPrice > ma.sma20 /\ currentPrice > ma.sma50 THEN Adds(15, 0)
    ELSE IF currentPrice < ma.sma20 /\ ma.sma20 < ma.sma50 THEN Adds(0, 25)
    ELSE IF currentPrice < ma.sma20 /\ currentPrice < ma.sma50 THEN Adds(0, 15)
    ELSE Adds(0, 0)

\* lines 334-338: distToEma = |currentPrice - ema9| / ema9 against 0.005 and 0.015
EmaFactor(currentPrice, ema9) ==
    LET dist == Abs(currentPrice - ema9)
        near == 1000 * dist < 5 * ema9
        close == 1000 * dist < 15 * ema9
    IN  IF currentPrice > ema9 /\ near THEN Adds(20, 0)
        ELSE IF currentPrice > ema9 /\ close THEN Adds(13, 0)
        ELSE IF currentPrice < ema9 /\ near THEN Adds(0, 20)
        ELSE IF currentPrice < ema9 /\ close THEN Adds(0, 13)
        ELSE Adds(0, 0)

\* lines 300-302 and 342-343; recentClose = the closes of slice(-5), in pips
ConsecutiveFactor(recentClose, currentPrice, sr) ==
    LET isConsecutiveGain == recentClose[1] < recentClose[2] /\ recentClose[2] < recentClose[3]
        isConsecutiveLoss == recentClose[1] > recentClose[2] /\ recentClose[2] > recentClose[3]
    IN  IF isConsecutiveGain /\ currentPrice > sr.support THEN Adds(25, 0)
        ELSE IF isConsecutiveLoss /\ currentPrice < sr.resistance THEN Adds(0, 25)
        ELSE Adds(0, 0)

\* lines 347-350: the %K level
StochLevel(k) ==
    IF k < 15000 THEN Adds(22, 0)
    ELSE IF k < 30000 THEN Adds(15, 0)
    ELSE IF k > 85000 THEN Adds(0, 22)
    ELSE IF k > 70000 THEN Adds(0, 15)
    ELSE Adds(0, 0)

\* lines 352-353: %K against %D
StochCross(k, d) == IF k > d THEN Adds(12, 0) ELSE Adds(0, 12)

\* lines 347-353
StochFactor(st) ==
    Adds(StochLevel(st.k).bull + StochCross(st.k, st.d).bull,
         StochLevel(st.k).bear + StochCross(st.k, st.d).bear)

\* bandPosition = (currentPrice - lower) / (upper - lower) compared with
\* permille / 1000.  A zero width makes it NaN (0 / 0, every comparison false)
\* or an infinity of the sign of currentPrice - lower.
BandPositionBelow(currentPrice, b, permille) ==
    IF b.upper > b.lower
    THEN 1000 * (currentPrice - b.lower) < permille * (b.upper - b.lower)
    ELSE currentPrice < b.lower
BandPositionAbove(currentPrice, b, permille) ==
    IF b.upper > b.lower
    THEN 1000 * (currentPrice - b.lower) > permille * (b.upper - b.lower)
    ELSE currentPrice > b.lower

\* lines 358-361: the band extremes
BollingerExtreme(currentPrice, b) ==
    IF currentPrice < b.lower THEN Adds(25, 0)
    ELSE IF BandPositionBelow(currentPrice, b, 150) THEN Adds(18, 0)
    ELSE IF currentPrice > b.upper THEN Adds(0, 25)
    ELSE IF BandPositionAbove(currentPrice, b, 850) THEN Adds(0, 18)
    ELSE Adds(0, 0)

\* lines 363-364: the mid-band tilt
BollingerTilt(currentPrice, b) ==
    IF currentPrice > b.middle /\ BandPositionAbove(currentPrice, b, 500) THEN Adds(8, 0)
    ELSE IF currentPrice < b.middle /\ BandPositionBelow(currentPrice, b, 500) THEN Adds(0, 8)
    ELSE Adds(0, 0)

\* lines 357-364, all in hundredths of a pip
BollingerFactor(currentPrice, b) ==
    Adds(BollingerExtreme(currentPrice, b).bull + BollingerTilt(currentPrice, b).bull,
         BollingerExtreme(currentPrice, b).bear + BollingerTilt(currentPrice, b).bear)

\* lines 368-374: volatilityRatio = atr / (volatility || 0.001) against 1.2 and 0.8;
\* atr in hundredths of a pip
VolatilityFactor(atr, bars, unit) ==
    LET recent == SliceLast(bars, 5)
        recentHigh == MaxSeq([i \in 1..Len(recent) |-> recent[i].high])
        recentLow == MinSeq([i \in 1..Len(recent) |-> recent[i].low])
        volatility == 100 * (recentHigh - recentLow)
        divisor == IF volatility # 0 THEN volatility ELSE unit \div 10
    IN  IF 10 * atr > 12 * divisor THEN Adds(8, 0)
        ELSE IF 10 * atr > 8 * divisor THEN Adds(0, 8)
        ELSE Adds(0, 0)

\* lines 298 and 378-379: priceChange = (currentPrice - lastPrice) / lastPrice * 100
\* against 0.08 and -0.08; prices in pips
MomentumFactor(currentPrice, lastPrice, rsi) ==
    LET up == 100000 * (currentPrice - lastPrice) > 80 * lastPrice
        down == 100000 * (currentPrice - lastPrice) < -80 * lastPrice
    IN  Adds(IF up /\ rsi < 70000 THEN 15 ELSE 0,
             IF down /\ rsi > 30000 THEN 15 ELSE 0)

FactorNames ==
    {"rsi", "macd", "ma", "ema", "consecutive", "stochastic", "bollinger",
     "volatility", "momentum"}

\* what each factor adds to totalSignals, in tenths
FactorWeight(f) ==
    CASE f = "rsi" -> 30
      [] f = "macd" -> 25
      [] f = "ma" -> 25
      [] f = "ema" -> 20
      [] f = "consecutive" -> 25
      [] f = "stochastic" -> 22
      [] f = "bollinger" -> 25
      [] f = "volatility" -> 8
      [] f = "momentum" -> 15

RECURSIVE SumOver(_, _)
SumOver(S, f) ==
    IF S = {} THEN 0
    ELSE LET x == CHOOSE y \in S : TRUE IN f[x] + SumOver(S \ {x}, f)

\* lines 288-380: the contributions of the nine factors on a window of >= 30 bars
Factors(priceHistory, unit) ==
    LET rsi == calculateRSI(priceHistory, 14)
        currentPrice == Last(priceHistory).close
        lastPrice == priceHistory[Len(priceHistory) - 1].close
    IN  [f \in FactorNames |->
            CASE f = "rsi" -> RsiFactor(rsi)
              [] f = "macd" -> MacdFactor(calculateMACD(priceHistory), unit)
              [] f = "ma" -> MaFactor(100 * currentPrice, calculateMovingAverages(priceHistory))
              [] f = "ema" -> EmaFactor(100 * currentPrice,
                                        calculateMovingAverages(priceHistory).ema9)
              [] f = "consecutive" ->
                    ConsecutiveFactor(Closes(SliceLast(priceHistory, 5)), currentPrice,
                                      detectSupportResistance(priceHistory))
              [] f = "stochastic" -> StochFactor(calculateStochastic(priceHistory, 14))
              [] f = "bollinger" -> BollingerFactor(100 * currentPrice,
                                                    calculateBollingerBands(priceHistory, 20))
              [] f = "volatility" -> VolatilityFactor(calculateATR(priceHistory, 14),
                                                      priceHistory, unit)
              [] f = "momentum" -> MomentumFactor(currentPrice, lastPrice, rsi)]

\* Math.min(99, confidence): the upper clamp alone
ClampHigh(confidence) == Min2(99, confidence)

\* line 389: Math.min(99, Math.max(45, confidence))
Clamp(confidence) == Min2(99, Max2(45, confidence))

\* lines 382-387, the signals in tenths:
\* Math.round((bullish / total * 100) * (|bullish - bearish| / total) * 3.5)
RawConfidence(bullishSignals, bearishSignals, totalSignals) ==
    DivRound(350 * bullishSignals * Abs(bullishSignals - bearishSignals),
             totalSignals * totalSignals)

\* analyzePattern after its updatePrices call, on the stored prices pr.  The result
\* carries, besides action and confidence, the argument, the window length, the
\* confidence before the clamp and what each factor added.
ScorePattern(pr, pair) ==
    LET priceHistory == getPriceHistory(pr, pair, 50)
    IN  IF Len(priceHistory) < 30
        THEN [pair |-> pair, action |-> "BUY", confidence |-> 0,
              bars |-> Len(priceHistory), raw |-> 0, factors |-> [f \in FactorNames |-> Adds(0, 0)]]
        ELSE LET factors == Factors(priceHistory, Unit(pair))
                 bullishSignals == SumOver(FactorNames, [f \in FactorNames |-> factors[f].bull])
                 bearishSignals == SumOver(FactorNames, [f \in FactorNames |-> factors[f].bear])
                 totalSignals == SumOver(FactorNames, [f \in FactorNames |-> FactorWeight(f)])
                 confidence == RawConfidence(bullishSignals, bearishSignals, totalSignals)
             IN  [pair |-> pair,
                  action |-> IF bullishSignals > bearishSignals THEN "BUY" ELSE "SELL",
                  confidence |-> Clamp(confidence), bars |-> Len(priceHistory),
                  raw |-> confidence, factors |-> factors]

(***************************************************************************)
(* analyzeMultiTimeframe, the score in tenths                              *)
(***************************************************************************)
\* Math.min(1.2, mtfScore)
CapMtf(mtfScore) == Min2(12, mtfScore)

analyzeMultiTimeframe(pr, pair) ==
    LET shortTerm == getPriceHistory(pr, pair, 20)
        allPrices == getPriceHistory(pr, pair, 50)
        short_rsi == calculateRSI(shortTerm, 14)
        short_trend == IF Last(shortTerm).close > shortTerm[1].close THEN 1 ELSE -1
        short_diff == Last(shortTerm).close - shortTerm[1].close
        medium_rsi == calculateRSI(allPrices, 14)
        medium_trend == IF Last(allPrices).close > allPrices[1].close THEN 1 ELSE -1
        medium_diff == Last(allPrices).close - allPrices[1].close
        agreement == IF short_trend = medium_trend THEN 12 ELSE 1
        \* Math.abs(short_momentum) > 0.01, Math.abs(medium_momentum) > 0.02
        shortMove == IF 100 * Abs(short_diff) > shortTerm[1].close THEN 4 ELSE 0
        mediumMove == IF 100 * Abs(medium_diff) > 2 * allPrices[1].close THEN 4 ELSE 0
        rsiTerm == IF Abs(short_rsi - medium_rsi) > 20000 THEN 2
                   ELSE IF Abs(short_rsi - medium_rsi) < 5000 THEN 3 ELSE 0
    IN  IF Len(shortTerm) < 10 THEN 0
        ELSE CapMtf(agreement + shortMove + mediumMove + rsiTerm)

(***************************************************************************)
(* generateSignal                                                          *)
(***************************************************************************)
\* what generateSignal returns is a sequence: empty for null, else holding the signal
Null == <<>>
MaxAttempts == 50

\* getCurrentSession at clock reading t (UTC is the local zone)
getCurrentSession(t) ==
    LET hour == getHours(t)
    IN  IF hour >= 0 /\ hour < 8 THEN [name |-> "Asian", pairs |-> Asian]
        ELSE IF hour >= 8 /\ hour < 16 THEN [name |-> "London", pairs |-> London]
        ELSE [name |-> "New York", pairs |-> NewYork]

\* lines 434-441.  An optional value is a sequence of length 0 (undefined, null) or 1:
\* thresholdOverride is the optional argument, savedSettings the optional item of
\* localStorage, itself holding the optional confidenceThreshold.
Threshold(thresholdOverride, savedSettings) ==
    IF Len(thresholdOverride) > 0 THEN thresholdOverride[1]
    ELSE IF Len(savedSettings) > 0
         THEN (IF Len(savedSettings[1]) > 0 THEN savedSettings[1][1] ELSE 65)
         ELSE 65

\* line 453: mtf > 1 ? (mtf - 1) * 8 : mtf * 4, mtf and the result in tenths
mtfBoost(mtf) == IF mtf > 10 THEN (mtf - 10) * 8 ELSE mtf * 4

\* line 454: Math.min(99, Math.round(confidence + mtfBoost))
FinalConfidence(confidence, mtf) ==
    Min2(99, DivRound(10 * confidence + mtfBoost(mtf), 10))

\* lines 451-454 after the updatePrices call of analyzePattern: what one draw yields
DrawOutcome(pr, pair) ==
    [pair |-> pair,
     action |-> ScorePattern(pr, pair).action,
     mtf |-> analyzeMultiTimeframe(pr, pair),
     boost |-> mtfBoost(analyzeMultiTimeframe(pr, pair)),
     confidence |-> FinalConfidence(ScorePattern(pr, pair).confidence,
                                    analyzeMultiTimeframe(pr, pair))]

\* lines 443-447: the locals of generateSignal as the loop is entered.  start_time
\* and end_time hold the Date values the ISO strings are printed from.
EnterSearch(t, threshold, maxAttempts) ==
    [session |-> getCurrentSession(t),
     threshold |-> threshold,
     startTime |-> getNextFiveMinuteInterval(t).start,
     endTime |-> getNextFiveMinuteInterval(t).end,
     attempts |-> 0,
     maxAttempts |-> maxAttempts,
     validSignals |-> <<>>,
     broke |-> FALSE]

\* lines 457-467
ValidSignal(s, outcome) ==
    [signal |-> [pair |-> outcome.pair, action |-> outcome.action,
                 confidence |-> outcome.confidence,
                 start_time |-> s.startTime, end_time |-> s.endTime,
                 session |-> s.session.name],
     confidence |-> outcome.confidence]

\* if (validSignals.length >= 4) break
BreaksLate(validSignals) == Len(validSignals) >= 4

\* line 469: if (validSignals.length >= 3) break
Breaks(validSignals) == Len(validSignals) >= 3

\* lines 456-474: the loop body from the threshold test on, given the draw's outcome
LoopBody(s, outcome) ==
    IF outcome.confidence >= s.threshold
    THEN LET pushed == Append(s.validSignals, ValidSignal(s, outcome))
         IN  IF Breaks(pushed)
             THEN [s EXCEPT !.validSignals = pushed, !.broke = TRUE]
             ELSE [s EXCEPT !.validSignals = pushed, !.attempts = @ + 1]
    ELSE [s EXCEPT !.attempts = @ + 1]

\* line 449: the loop runs on
LoopContinues(s) == ~s.broke /\ s.attempts < s.maxAttempts

\* reduce((best, current) => current.confidence >= best.confidence ? current : best)
RECURSIVE BestValidLast(_, _)
BestValidLast(validSignals, i) ==
    IF i = 1 THEN validSignals[1]
    ELSE IF validSignals[i].confidence >= BestValidLast(validSignals, i - 1).confidence
         THEN validSignals[i]
         ELSE BestValidLast(validSignals, i - 1)

\* validSignals[0]: the first qualifying candidate, not the best one
RECURSIVE BestValidFirst(_, _)
BestValidFirst(validSignals, i) ==
    IF i = 1 THEN validSignals[1] ELSE BestValidFirst(validSignals, i - 1)

\* lines 481-483: the value of the reduce after it has handled validSignals[i]
RECURSIVE BestValid(_, _)
BestValid(validSignals, i) ==
    IF i = 1 THEN validSignals[1]
    ELSE IF validSignals[i].confidence > BestValid(validSignals, i - 1).confidence
         THEN validSignals[i]
         ELSE BestValid(validSignals, i - 1)

\* lines 477-485
SelectResult(s) ==
    IF Len(s.validSignals) = 0 THEN Null
    ELSE <<BestValid(s.validSignals, Len(s.validSignals)).signal>>

\* the loop of lines 449-475 run on the draw outcomes feed[i..]
RECURSIVE RunLoop(_, _, _)
RunLoop(s, feed, i) ==
    IF ~LoopContinues(s) \/ i > Len(feed) THEN s
    ELSE RunLoop(LoopBody(s, feed[i]), feed, i + 1)

\* generateSignal when its draws yield the outcomes of feed, in order
GenerateSignalOn(feed, s) == SelectResult(RunLoop(s, feed, 1))

\* the number of draws a search with locals s has performed
DrawsPerformed(s) == s.attempts + (IF s.broke THEN 1 ELSE 0)

(***************************************************************************)
(* The state machine                                                       *)
(***************************************************************************)
vars == <<now, simulator, lastCall, interval, ticks, updates, lastScore, lastMtf,
          pc, search, draws, result>>

NoScore == [pair |-> "", action |-> "", confidence |-> -1, bars |-> -1, raw |-> -1,
            factors |-> [f \in FactorNames |-> Adds(0, 0)]]
NoMtf == [pair |-> "", boost |-> -1]
\* at: the clock reading getNextFiveMinuteInterval worked from; until: the result
\* of getTimeUntilNextInterval (0 when the call was getNextFiveMinuteInterval)
NoInterval == [at |-> -1, start |-> -1, end |-> -1, until |-> 0]

\* the module is loaded at clock reading t: const simulator = new MarketSimulator()
InitBase(t, seed) ==
    /\ now = t
    /\ simulator = NewSimulator(seed, t)
    /\ lastCall = "load"
    /\ interval = NoInterval
    /\ ticks = 0
    /\ updates = 0
    /\ lastScore = NoScore
    /\ lastMtf = NoMtf
    /\ pc = "idle"
    /\ draws = <<>>
    /\ result = Null

\* no generateSignal call has been made: its locals are those of an unentered loop
InitAt(t, seed) == InitBase(t, seed) /\ search = EnterSearch(t, 0, 0)

\* the clock advances by d milliseconds
Tick(d) ==
    /\ pc = "idle"
    /\ ticks < MaxTicks
    /\ now' = now + d
    /\ ticks' = ticks + 1
    /\ lastCall' = "tick"
    /\ UNCHANGED <<simulator, interval, updates, lastScore, lastMtf, pc, search, draws, result>>

\* getNextFiveMinuteInterval()
GetNextFiveMinuteIntervalCall ==
    /\ pc = "idle"
    /\ interval' = [at |-> now,
                    start |-> getNextFiveMinuteInterval(now).start,
                    end |-> getNextFiveMinuteInterval(now).end,
                    until |-> 0]
    /\ lastCall' = "getNextFiveMinuteInterval"
    /\ UNCHANGED <<now, simulator, ticks, updates, lastScore, lastMtf, pc, search, draws, result>>

\* getTimeUntilNextInterval(): new Date(), then getNextFiveMinuteInterval() reads the
\* clock again, d milliseconds later
GetTimeUntilNextIntervalCall(d) ==
    /\ pc = "idle"
    /\ d = 0 \/ ticks < MaxTicks
    /\ now' = now + d
    /\ ticks' = IF d = 0 THEN ticks ELSE ticks + 1
    /\ interval' = [at |-> now',
                    start |-> getNextFiveMinuteInterval(now').start,
                    end |-> getNextFiveMinuteInterval(now').end,
                    until |-> getNextFiveMinuteInterval(now').start - now]
    /\ lastCall' = "getTimeUntilNextInterval"
    /\ UNCHANGED <<simulator, updates, lastScore, lastMtf, pc, search, draws, result>>

\* analyzePattern(pair): simulator.updatePrices(), then the scoring of lines 283-389
AnalyzePatternCall(pair, seed) ==
    /\ pc = "idle"
    /\ updates < MaxUpdates
    /\ simulator' = updatePrices(simulator, seed, now)
    /\ lastScore' = ScorePattern(simulator'.prices, pair)
    /\ updates' = updates + 1
    /\ lastCall' = "analyzePattern"
    /\ UNCHANGED <<now, interval, ticks, lastMtf, pc, search, draws, result>>

\* analyzeMultiTimeframe(pair)
AnalyzeMultiTimeframeCall(pair) ==
    /\ pc = "idle"
    /\ lastMtf' = [pair |-> pair, boost |-> analyzeMultiTimeframe(simulator.prices, pair)]
    /\ lastCall' = "analyzeMultiTimeframe"
    /\ UNCHANGED <<now, simulator, interval, ticks, updates, lastScore, pc, search, draws, result>>

\* generateSignal(thresholdOverride) up to the loop, with localStorage holding savedSettings
GenerateSignalCall(thresholdOverride, savedSettings) ==
    /\ pc = "idle"
    /\ search' = EnterSearch(now, Threshold(thresholdOverride, savedSettings), MaxAttempts)
    /\ draws' = <<>>
    /\ pc' = "loop"
    /\ lastCall' = "generateSignal"
    /\ UNCHANGED <<now, simulator, interval, ticks, updates, lastScore, lastMtf, result>>

\* Math.random() of line 450 for the n-th draw of a search, in thousandths
PickRandom(seed, n) == (389 * seed + 211 * n) % 1000

\* line 450: pairs[Math.floor(Math.random() * pairs.length)]
PickPair(pairs, r) == pairs[((r * Len(pairs)) \div 1000) + 1]

\* one iteration of the while loop: a draw and what the loop does with it
SearchStep(seed) ==
    /\ pc = "loop"
    /\ LoopContinues(search)
    /\ simulator' = updatePrices(simulator, seed, now)
    /\ draws' = Append(draws, DrawOutcome(simulator'.prices,
                          PickPair(search.session.pairs, PickRandom(seed, Len(draws)))))
    /\ search' = LoopBody(search, Last(draws'))
    /\ pc' = IF LoopContinues(search') THEN "loop" ELSE "select"
    /\ lastCall' = "draw"
    /\ UNCHANGED <<now, interval, ticks, updates, lastScore, lastMtf, result>>

\* lines 477-485
SearchReturn ==
    /\ pc = "select"
    /\ result' = SelectResult(search)
    /\ pc' = "done"
    /\ lastCall' = "return"
    /\ UNCHANGED <<now, simulator, interval, ticks, updates, lastScore, lastMtf, search, draws>>

\* a draw whose outcome is given: the loop body of generateSignal on a sequence of
\* draw outcomes of at most MaxFeed draws, the attempt cap being the feed's length
FeedDraw(outcome) ==
    /\ pc = "idle"
    /\ Len(draws) < MaxFeed
    /\ draws' = Append(draws, outcome)
    /\ result' = GenerateSignalOn(draws', [search EXCEPT !.maxAttempts = Len(draws')])
    /\ lastCall' = "feed"
    /\ UNCHANGED <<now, simulator, interval, ticks, updates, lastScore, lastMtf, pc, search>>

(***************************************************************************)
(* Specifications                                                          *)
(***************************************************************************)
\* the clock readings the interval functions are called at
IntervalStarts == {TimeOf(0, 0, 0, 0), TimeOf(23, 0, 0, 0)}
\* the amounts the clock advances by: the first advance reaches every minute of the
\* hour, with and without seconds and milliseconds; later ones are short
ClockSteps(n) ==
    IF n = 0
    THEN {TimeOf(0, m, s, ms) : m \in 0..59, s \in {0, 30, 59}, ms \in {0, 999}} \ {0}
    ELSE {1, MsPerMinute}

InitInterval == \E t \in IntervalStarts : InitAt(t, 1)
NextInterval ==
    \/ \E d \in ClockSteps(ticks) : Tick(d)
    \/ GetNextFiveMinuteIntervalCall
    \/ \E d \in {0, 1} : GetTimeUntilNextIntervalCall(d)
SpecInterval == InitInterval /\ [][NextInterval]_vars

\* scoring calls on the simulator
ScoreStart == TimeOf(12, 3, 0, 0)
ScoredPairs == {"EUR/USD", "GBP/JPY", "NZD/JPY", "USD/CHF", UnknownPair}
ScoreSeeds == {1, 2}
InitScore == InitAt(ScoreStart, 1)
NextScore ==
    \/ Tick(1)
    \/ \E pair \in ScoredPairs, seed \in ScoreSeeds : AnalyzePatternCall(pair, seed)
    \/ \E pair \in ScoredPairs : AnalyzeMultiTimeframeCall(pair)
SpecScore == InitScore /\ [][NextScore]_vars

\* one generateSignal call
SearchStarts == {TimeOf(3, 7, 30, 0), TimeOf(12, 55, 0, 0)}
ThresholdOverrides == {<<>>, <<45>>, <<48>>}
SavedSettings == {<<>>, << <<47>> >>, << <<>> >>}
Seeds == {1, 2, 3}
\* the random outcomes explored for the n-th draw of a search
StepSeeds(n) == IF n < BranchDraws THEN Seeds ELSE {(n % Cardinality(Seeds)) + 1}
InitSearch == \E t \in SearchStarts : InitAt(t, 1)
NextSearch ==
    \/ \E o \in ThresholdOverrides, saved \in SavedSettings : GenerateSignalCall(o, saved)
    \/ \E seed \in StepSeeds(Len(draws)) : SearchStep(seed)
    \/ SearchReturn
SpecSearch == InitSearch /\ [][NextSearch]_vars

\* the selection of generateSignal on given draw outcomes
FeedOutcomes ==
    {[pair |-> p, action |-> a, mtf |-> 12, boost |-> mtfBoost(12), confidence |-> c] :
        p \in {"EUR/USD", "GBP/USD"}, a \in {"BUY", "SELL"}, c \in {60, 70, 80}}
FeedThresholds == {65, 75}
InitFeed ==
    /\ InitBase(ScoreStart, 1)
    /\ \E th \in FeedThresholds : search = EnterSearch(ScoreStart, th, 0)
NextFeed == \E outcome \in FeedOutcomes : FeedDraw(outcome)
SpecFeed == InitFeed /\ [][NextFeed]_vars

(***************************************************************************)
(* Properties                                                              *)
(***************************************************************************)
IntervalCalled == interval.at >= 0
FiveMinutes == 5 * MsPerMinute
OnBoundary(t) == t % FiveMinutes = 0

\* the draws of the current search that qualify
Qualifying == {i \in 1..Len(draws) : draws[i].confidence >= search.threshold}
\* the first qualifying draw of maximal finalConfidence
FirstBest ==
    CHOOSE i \in Qualifying :
        /\ \A j \in Qualifying : draws[j].confidence <= draws[i].confidence
        /\ \A j \in Qualifying : j < i => draws[j].confidence < draws[i].confidence

\* C1: the search loop never makes more than maxAttempts draws nor collects more
\* than 3 candidates; it runs on exactly while fewer than 3 candidates are collected
\* and fewer than maxAttempts draws are made; every iteration is one more draw, so
\* that the loop is left after at most maxAttempts iterations, and the call returns.
SearchBounded ==
    /\ Len(draws) <= MaxAttempts
    /\ Len(search.validSignals) <= 3
    /\ pc = "loop" =>
          /\ Len(search.validSignals) < 3 /\ Len(draws) < MaxAttempts
          /\ LoopContinues(search)
    /\ pc \in {"select", "done"} =>
          Len(search.validSignals) = 3 \/ Len(draws) = MaxAttempts
    /\ pc \in {"select", "done"} /\ Len(draws) < MaxAttempts =>
          Last(draws).confidence >= search.threshold
SearchProgress ==
    /\ pc = "loop" => pc' \in {"loop", "select"} /\ Len(draws') = Len(draws) + 1
    /\ pc = "select" => pc' = "done"
SearchTerminates == []SearchBounded /\ [][SearchProgress]_vars
\* a search that ended on the attempt cap with fewer than 3 candidates
SearchHitCap ==
    pc = "done" /\ Len(draws) = MaxAttempts /\ Len(search.validSignals) < 3

\* C2: generateSignal returns null exactly when no draw qualified; otherwise the
\* signal of the first qualifying draw among those of maximal finalConfidence,
\* which is at least the threshold and at most 99.
ReturnsFirstBest ==
    pc = "done" =>
        /\ (result = Null) <=> (Qualifying = {})
        /\ result # Null =>
              /\ result[1].pair = draws[FirstBest].pair
              /\ result[1].action = draws[FirstBest].action
              /\ result[1].confidence = draws[FirstBest].confidence
              /\ result[1].confidence >= search.threshold
              /\ result[1].confidence <= 99
\* a search returned a draw that was neither the first nor the only candidate
ReturnedLaterBest ==
    /\ pc = "done"
    /\ result # Null
    /\ Cardinality(Qualifying) >= 2
    /\ \E i \in Qualifying : i < FirstBest

\* C3: the interval starts at the first five-minute boundary strictly after the
\* clock reading, and getTimeUntilNextInterval is never negative.
StartsStrictlyAfterNow ==
    IntervalCalled =>
        /\ OnBoundary(interval.start)
        /\ interval.start > interval.at
        /\ interval.start - interval.at <= FiveMinutes
        /\ interval.until >= 0

\* C4: start is on a five-minute boundary (minute a multiple of 5, no seconds, no
\* milliseconds) and end is start plus five minutes.
IntervalAligned ==
    IntervalCalled =>
        /\ getMinutes(interval.start) % 5 = 0
        /\ getSeconds(interval.start) = 0
        /\ getMilliseconds(interval.start) = 0
        /\ interval.end = interval.start + FiveMinutes
\* a reading exactly on minute 55 gave the interval that starts the next hour
RolledOverFromBoundary ==
    /\ IntervalCalled
    /\ getMinutes(interval.at) = 55
    /\ getSeconds(interval.at) = 0 /\ getMilliseconds(interval.at) = 0
    /\ getMinutes(interval.start) = 0
    /\ getHours(interval.start) = (getHours(interval.at) + 1) % 24

\* C5: analyzePattern returns BUY with confidence 0 on fewer than 30 bars and a
\* confidence in 45..99 otherwise.
ConfidenceRange ==
    lastScore.bars >= 0 =>
        /\ lastScore.bars < 30 => lastScore.confidence = 0 /\ lastScore.action = "BUY"
        /\ lastScore.bars >= 30 => lastScore.confidence \in 45..99
\* a window of 30 bars or more whose computed confidence lay under the floor
ClampedToFloor ==
    lastScore.bars >= 30 /\ lastScore.raw < 45 /\ lastScore.confidence = 45

\* the permutations of a sequence
PermutationsOf(seq) ==
    {[i \in 1..Len(seq) |-> seq[f[i]]] : f \in Permutations(1..Len(seq))}
\* the locals of a search entered with the threshold of search, capped at n draws
SearchOf(n) == [search EXCEPT !.maxAttempts = n]
\* every draw outcome of feed is performed by a search capped at the feed's length
Performed(feed) == DrawsPerformed(RunLoop(SearchOf(Len(feed)), feed, 1)) = Len(feed)
\* the pair and action of the qualifying draws of maximal finalConfidence
BestChoices ==
    {<<draws[i].pair, draws[i].action>> :
        i \in {k \in Qualifying : \A j \in Qualifying :
                                     draws[j].confidence <= draws[k].confidence}}
ConfidenceOf(r) == IF r = Null THEN -1 ELSE r[1].confidence

\* C6 as stated: a search fed any permutation of the draws performed returns the
\* same signal.
OrderIndependent ==
    Performed(draws) =>
        \A perm \in PermutationsOf(draws) :
            GenerateSignalOn(perm, SearchOf(Len(draws))) = result

\* C6 amended: a search fed any permutation of the draws performed returns null
\* in the same cases and a signal of the same confidence, and the same signal
\* whenever the qualifying draws of maximal finalConfidence agree in instrument
\* and action.
OrderIndependentUpToTies ==
    Performed(draws) =>
        \A perm \in PermutationsOf(draws) :
            /\ ConfidenceOf(GenerateSignalOn(perm, SearchOf(Len(draws)))) = ConfidenceOf(result)
            /\ Cardinality(BestChoices) <= 1 =>
                  GenerateSignalOn(perm, SearchOf(Len(draws))) = result
\* the draws performed hold two candidates, the better one second
BestFedSecond ==
    /\ Performed(draws)
    /\ Cardinality(Qualifying) = 2
    /\ \E i \in Qualifying : i < FirstBest
    /\ result # Null /\ result[1].confidence = draws[FirstBest].confidence

\* C7: a scoring call leaves the stored price history of every instrument unchanged.
ScoringKeepsHistory ==
    [][lastCall' \in {"analyzePattern", "analyzeMultiTimeframe"}
          => simulator'.prices = simulator.prices]_vars

\* C8: no factor adds to bullishSignals and to bearishSignals in one evaluation.
OneSidePerFactor ==
    \A f \in FactorNames : ~(lastScore.factors[f].bull > 0 /\ lastScore.factors[f].bear > 0)

\* C9: of two boosts the draws of a search returned, the larger gets at least the
\* adjustment of the smaller, and a boost above 1 gets more than one of at most 1.
BoostRewardsAgreement ==
    \A i, j \in 1..Len(draws) :
        /\ draws[i].mtf < draws[j].mtf => draws[i].boost <= draws[j].boost
        /\ draws[i].mtf <= 10 /\ draws[j].mtf > 10 => draws[i].boost < draws[j].boost

\* C10: every stored price history has strictly ascending timestamps.
TimestampsAscending ==
    \A p \in PairNames :
        \A i \in 1..(Len(simulator.prices[p]) - 1) :
            simulator.prices[p][i].timestamp < simulator.prices[p][i + 1].timestamp

\* C11: every stored history holds 51 to 60 bars, so that getPriceHistory(pair, 50)
\* returns 50 bars and getPriceHistory(pair, 20) returns 20; for the instrument a
\* search has just drawn, analyzePattern does not return the confidence 0 of a short
\* window and analyzeMultiTimeframe does not return 0.
HistoryLongEnough ==
    /\ \A p \in PairNames :
          /\ Len(simulator.prices[p]) \in 51..60
          /\ Len(getPriceHistory(simulator.prices, p, 50)) = 50
          /\ Len(getPriceHistory(simulator.prices, p, 20)) = 20
    /\ Len(draws) > 0 =>
          /\ Last(draws).pair \in PairNames
          /\ ScorePattern(simulator.prices, Last(draws).pair).bars = 50
          /\ ScorePattern(simulator.prices, Last(draws).pair).confidence >= 45
          /\ analyzeMultiTimeframe(simulator.prices, Last(draws).pair) > 0
          /\ Last(draws).mtf = analyzeMultiTimeframe(simulator.prices, Last(draws).pair)
\* a search has pushed so many bars that every history is at the cap of 60 and one
\* has lost all the bars it was constructed with
HistoryAtCap ==
    /\ Len(draws) > 0
    /\ \A p \in PairNames : Len(simulator.prices[p]) = 60
    /\ \E p \in PairNames : simulator.prices[p][1].timestamp = now

====
